---- MODULE Spec2Model ----
(***************************************************************************)
(* Model of pymanopt's fixed-rank PSD quotient manifolds                   *)
(* (pymanopt/manifolds/fixed_rank.py) and of the autodiff dispatcher       *)
(* (pymanopt/tools/autodiff/autodiff.py).                                  *)
(*                                                                         *)
(* Numbers are exact: a Python float that holds a rational value is the    *)
(* reduced fraction <<num, den>>, a complex number is the pair <<re, im>>  *)
(* of integers, a matrix is a tuple of rows.                               *)
(***************************************************************************)
EXTENDS Integers, Sequences, FiniteSets, TLC

VARIABLES
    manifold,   \* the manifold instance: [variant, n, k]
    pydiv,      \* what "/" does on two ints: "floor" (Python 2) or "true" (Python 3)
    last,       \* the last manifold operation called, its arguments and outcome
    problem,    \* the problem object handed to compile
    ret,        \* the outcome of the last compile call
    ncalls      \* number of compile calls made so far

vars == <<manifold, pydiv, last, problem, ret, ncalls>>

None == "None"

(***************************************************************************)
(* Bounds of the model.                                                    *)
(***************************************************************************)
MaxCalls == 2

\* Largest ambient size n of the instances whose dim is computed.
MaxDim == 12

\* Largest ambient size n of the instances whose operations act on matrices.
MaxN == 2

\* Largest number of real scalars in a point: n*k of them in a real point,
\* 2*n*k in a complex one.
MaxReals == 4

\* Largest entry of a matrix drawn (re + im of a complex one).
MaxEntry == 1

(***************************************************************************)
(* pymanopt/tools/autodiff/autodiff.py                                     *)
(***************************************************************************)

\* type(problem.ad_cost).__name__: the two names compile recognises and one
\* it does not.
AdCostTypes == {"TensorVariable", "function", "ndarray"}

RecognisedTypes == {"TensorVariable", "function"}

Callables == {"cost", "grad", "egrad", "hess", "ehess"}

\* The problem objects a caller can hand over: each callable either supplied
\* by the user or None.
Problems ==
    [cost : {None, "user"}, grad : {None, "user"}, egrad : {None, "user"},
     hess : {None, "user"}, ehess : {None, "user"}, ad_cost : AdCostTypes]

\* The backend modules _theano and _autograd: each returns a callable.
AdCompile(ad) ==
    IF ad = "_theano" THEN "_theano.compile" ELSE "_autograd.compile"

AdGradient(ad) ==
    IF ad = "_theano" THEN "_theano.gradient" ELSE "_autograd.gradient"

AdHessian(ad) ==
    IF ad = "_theano" THEN "_theano.hessian" ELSE "_autograd.hessian"

Backends == {"_theano", "_autograd"}

Synthesized ==
    {AdCompile(ad) : ad \in Backends} \cup {AdGradient(ad) : ad \in Backends}
        \cup {AdHessian(ad) : ad \in Backends}

\* Lines 3-5: some required callable is missing.
NeedsBackend(p, need_grad, need_hess) ==
    \/ p.cost = None
    \/ (need_grad /\ p.grad = None /\ p.egrad = None)
    \/ (need_hess /\ p.hess = None /\ p.ehess = None)

\* Lines 6-12: the local name ad after the conditional import.  The module
\* neither imports nor defines warn, so the else branch raises NameError
\* when it looks the name up.
SelectBackend(p, need_grad, need_hess) ==
    IF ~NeedsBackend(p, need_grad, need_hess)
    THEN [ad |-> "unbound", raised |-> "none"]
    ELSE IF p.ad_cost = "TensorVariable"
         THEN [ad |-> "_theano", raised |-> "none"]
         ELSE IF p.ad_cost = "function"
              THEN [ad |-> "_autograd", raised |-> "none"]
              ELSE [ad |-> "unbound", raised |-> "NameError"]

\* Lines 14-15 without the test of line 14.
CostStepAlways(p, ad) == [p EXCEPT !.cost = AdCompile(ad)]

\* Lines 14-15.
CostStep(p, ad) ==
    IF p.cost = None THEN [p EXCEPT !.cost = AdCompile(ad)] ELSE p

\* Lines 17-21: the Hessian is synthesized inside the gradient's branch only.
GradHessStep(p, ad, need_grad, need_hess) ==
    IF need_grad /\ p.egrad = None /\ p.grad = None
    THEN LET p1 == [p EXCEPT !.egrad = AdGradient(ad)]
         IN  IF need_hess /\ p1.ehess = None /\ p1.hess = None
             THEN [p1 EXCEPT !.ehess = AdHessian(ad)]
             ELSE p1
    ELSE p

\* Lines 14, 17: a statement that reads the local name ad is executed.
UsesAd(p, need_grad) ==
    \/ p.cost = None
    \/ (need_grad /\ p.egrad = None /\ p.grad = None)

\* compile(problem, need_grad, need_hess): the problem after the call and
\* the exception that left it, if any.  An exception is raised before the
\* first assignment, so the problem is then unchanged.
CompileBody(p, need_grad, need_hess) ==
    LET sel == SelectBackend(p, need_grad, need_hess)
        raised == IF sel.raised # "none" THEN sel.raised
                  ELSE IF sel.ad = "unbound" /\ UsesAd(p, need_grad)
                       THEN "UnboundLocalError"
                       ELSE "none"
    IN  [problem |-> IF raised # "none" THEN p
                     ELSE GradHessStep(CostStep(p, sel.ad), sel.ad,
                                       need_grad, need_hess),
         raised |-> raised,
         backend |-> sel.ad,
         needed |-> NeedsBackend(p, need_grad, need_hess)]

\* One call of compile.  The record kept of it holds the flags, the problem
\* before the call, and whether the call repeats the flags of a call that
\* has just returned.
Compile(need_grad, need_hess) ==
    /\ ncalls < MaxCalls
    /\ LET r == CompileBody(problem, need_grad, need_hess)
       IN  /\ problem' = r.problem
           /\ ret' = [op |-> "compile", need_grad |-> need_grad,
                      need_hess |-> need_hess, raised |-> r.raised,
                      backend |-> r.backend, needed |-> r.needed,
                      before |-> problem,
                      repeat |-> /\ ret.op = "compile"
                                 /\ ret.raised = "none"
                                 /\ ret.need_grad = need_grad
                                 /\ ret.need_hess = need_hess]
    /\ ncalls' = ncalls + 1
    /\ UNCHANGED <<manifold, pydiv, last>>

NoManifold == [variant |-> None, n |-> 0, k |-> 0]

NoCall == [op |-> "none"]

InitCompile ==
    /\ problem \in Problems
    /\ ret = NoCall
    /\ ncalls = 0
    /\ manifold = NoManifold
    /\ pydiv = "true"
    /\ last = NoCall

NextCompile == \E need_grad \in BOOLEAN, need_hess \in BOOLEAN :
                   Compile(need_grad, need_hess)

SpecCompile == InitCompile /\ [][NextCompile]_vars

(***************************************************************************)
(* Claims about compile                                                    *)
(***************************************************************************)

\* C1: after compile returns on a problem whose ad_cost is of a recognised
\* kind, every required callable is set: cost; grad or egrad if need_grad;
\* hess or ehess if need_hess.  Stated for the calls that respect the
\* assumption line 19 documents (a Hessian is needed only with a gradient).
C1_AllSynthesized ==
    (ret.op = "compile" /\ ret.raised = "none"
        /\ problem.ad_cost \in RecognisedTypes
        /\ (ret.need_hess => ret.need_grad))
    => /\ problem.cost # None
       /\ (ret.need_grad => (problem.grad # None \/ problem.egrad # None))
       /\ (ret.need_hess => (problem.hess # None \/ problem.ehess # None))

\* C2: when a backend is needed and the type of ad_cost matches none, compile
\* returns without raising and leaves the missing callables unset.
C2_WarningOnly ==
    (ret.op = "compile" /\ ret.needed
        /\ problem.ad_cost \notin RecognisedTypes)
    => /\ ret.raised = "none"
       /\ problem = ret.before

\* C10: compile never replaces a supplied callable, never writes grad or
\* hess, selects no backend and changes nothing when nothing required is
\* missing, and a second call with the same flags after a successful one
\* changes nothing.
C10_Frame ==
    /\ \A f \in Callables : problem[f] # None => problem'[f] = problem[f]
    /\ problem'.grad = problem.grad
    /\ problem'.hess = problem.hess
    /\ problem'.ad_cost = problem.ad_cost
    /\ (~NeedsBackend(problem, ret'.need_grad, ret'.need_hess)
           => (ret'.backend = "unbound" /\ ret'.raised = "none"
               /\ problem' = problem))
    /\ ((ret.op = "compile" /\ ret.raised = "none"
           /\ ret'.need_grad = ret.need_grad /\ ret'.need_hess = ret.need_hess)
           => problem' = problem)

C10_NeverReplaces == [][C10_Frame]_vars

\* A second compile has run after a successful first one with the same
\* flags, on a problem holding both a supplied and a synthesized callable.
C10_Witness ==
    /\ ncalls = 2
    /\ ret.repeat
    /\ ret.raised = "none"
    /\ ret.need_grad
    /\ problem.cost = "user"
    /\ problem.egrad \in Synthesized
    /\ ret.before = problem

(***************************************************************************)
(* Exact arithmetic                                                        *)
(***************************************************************************)
Abs(x) == IF x < 0 THEN -x ELSE x

RECURSIVE Gcd(_, _)
Gcd(a, b) == IF b = 0 THEN Abs(a) ELSE Gcd(b, a % b)

\* The fraction a / b (b # 0) in lowest terms with a positive denominator.
Frac(a, b) ==
    LET g == Gcd(a, b)
        s == IF b < 0 THEN -1 ELSE 1
    IN  <<(s * a) \div g, (s * b) \div g>>

FracOfInt(a) == <<a, 1>>

FracSub(x, y) == Frac(x[1] * y[2] - y[1] * x[2], x[2] * y[2])

\* Python's a / b on two ints: floor division in Python 2, true division
\* (a float holding the exact quotient) in Python 3.
PyDiv(a, b) == IF pydiv = "floor" THEN FracOfInt(a \div b) ELSE Frac(a, b)

(***************************************************************************)
(* pymanopt/manifolds/fixed_rank.py: the two classes                       *)
(***************************************************************************)
Variants == {"SymFixedRankYY", "SymFixedRankYYComplex"}

\* The methods SymFixedRankYYComplex defines itself; every other method
\* is inherited from SymFixedRankYY.
ComplexOverrides == {"dim", "inner", "norm", "dist", "exp", "rand", "pairmean"}

\* The class whose definition of method runs on an instance of variant.
Resolve(variant, method) ==
    IF variant = "SymFixedRankYYComplex" /\ method \in ComplexOverrides
    THEN "SymFixedRankYYComplex"
    ELSE "SymFixedRankYY"

\* k * n - k * (k - 1), the halving left out.
RealDimNoHalving(n, k) == FracSub(FracOfInt(k * n), FracOfInt(k * (k - 1)))

\* SymFixedRankYY.dim
RealDim(n, k) == FracSub(FracOfInt(k * n), PyDiv(k * (k - 1), 2))

\* SymFixedRankYYComplex.dim
ComplexDim(n, k) == FracOfInt(2 * k * n - k * k)

\* The property dim read on the instance.
Dim ==
    /\ last' = [op |-> "dim",
                value |-> IF Resolve(manifold.variant, "dim") = "SymFixedRankYY"
                          THEN RealDim(manifold.n, manifold.k)
                          ELSE ComplexDim(manifold.n, manifold.k)]
    /\ last = NoCall
    /\ UNCHANGED <<manifold, pydiv, problem, ret, ncalls>>

\* The property typicaldist, inherited by the complex class.
Typicaldist ==
    /\ last' = [op |-> "typicaldist", value |-> 10 + manifold.k]
    /\ last = NoCall
    /\ UNCHANGED <<manifold, pydiv, problem, ret, ncalls>>

NoProblem ==
    [cost |-> None, grad |-> None, egrad |-> None, hess |-> None,
     ehess |-> None, ad_cost |-> None]

\* Instances SymFixedRankYY(n, k) and SymFixedRankYYComplex(n, k) with
\* 1 <= k <= n <= MaxDim, under either meaning of "/".
InitDim ==
    /\ manifold \in {[variant |-> v, n |-> n, k |-> k] :
                        v \in Variants, n \in 1..MaxDim, k \in 1..MaxDim}
    /\ manifold.k <= manifold.n
    /\ pydiv \in {"floor", "true"}
    /\ last = NoCall
    /\ problem = NoProblem
    /\ ret = NoCall
    /\ ncalls = 0

NextDim == Dim \/ Typicaldist

SpecDim == InitDim /\ [][NextDim]_vars

\* C9: dim is the closed form of its variant as a whole number, under either
\* division: k*n - k*(k-1)/2 (real; 27 for n = 10, k = 3) and 2*k*n - k*k
\* (complex; 51 for n = 10, k = 3); halving k*(k-1) loses no fraction.
C9_DimClosedForm ==
    last.op = "dim" =>
        LET n == manifold.n
            k == manifold.k
            d == last.value
        IN  /\ d[2] = 1
            /\ (manifold.variant = "SymFixedRankYY"
                   => /\ 2 * d[1] = 2 * k * n - k * (k - 1)
                      /\ (k * (k - 1)) % 2 = 0
                      /\ (n = 10 /\ k = 3 => d[1] = 27))
            /\ (manifold.variant = "SymFixedRankYYComplex"
                   => /\ d[1] = 2 * k * n - k * k
                      /\ (n = 10 /\ k = 3 => d[1] = 51))

\* dim has been read on the 10-by-3 instance of either class.
C9_Witness ==
    /\ last.op = "dim"
    /\ manifold.n = 10
    /\ manifold.k = 3
    /\ last.value = (IF manifold.variant = "SymFixedRankYY"
                     THEN <<27, 1>> ELSE <<51, 1>>)
    /\ pydiv = "floor"

(***************************************************************************)
(* Matrices.  A real matrix is a tuple of rows of integers; a complex one  *)
(* a tuple of rows of pairs <<re, im>>.                                    *)
(***************************************************************************)
RECURSIVE SumSeq(_)
SumSeq(s) == IF Len(s) = 0 THEN 0 ELSE s[1] + SumSeq(SubSeq(s, 2, Len(s)))

Rows(M) == Len(M)

Cols(M) == Len(M[1])

\* M.T
RTranspose(M) == [j \in 1..Cols(M) |-> [i \in 1..Rows(M) |-> M[i][j]]]

\* A.dot(B)
RMul(A, B) ==
    [i \in 1..Rows(A) |-> [j \in 1..Cols(B) |->
        SumSeq([l \in 1..Cols(A) |-> A[i][l] * B[l][j]])]]

RSub(A, B) == [i \in 1..Rows(A) |-> [j \in 1..Cols(A) |-> A[i][j] - B[i][j]]]

RAdd(A, B) == [i \in 1..Rows(A) |-> [j \in 1..Cols(A) |-> A[i][j] + B[i][j]]]

RScale(c, A) == [i \in 1..Rows(A) |-> [j \in 1..Cols(A) |-> c * A[i][j]]]

\* np.tensordot(U, V) on real matrices: the sum of the entrywise products.
RTensordot(U, V) ==
    SumSeq([i \in 1..Rows(U) |->
        SumSeq([j \in 1..Cols(U) |-> U[i][j] * V[i][j]])])

CAdd(a, b) == <<a[1] + b[1], a[2] + b[2]>>

CSub(a, b) == <<a[1] - b[1], a[2] - b[2]>>

CMul(a, b) == <<a[1] * b[1] - a[2] * b[2], a[1] * b[2] + a[2] * b[1]>>

CConj(a) == <<a[1], -a[2]>>

RECURSIVE CSumSeq(_)
CSumSeq(s) ==
    IF Len(s) = 0 THEN <<0, 0>> ELSE CAdd(s[1], CSumSeq(SubSeq(s, 2, Len(s))))

\* M.T.conj()
CConjTranspose(M) ==
    [j \in 1..Cols(M) |-> [i \in 1..Rows(M) |-> CConj(M[i][j])]]

CMatMul(A, B) ==
    [i \in 1..Rows(A) |-> [j \in 1..Cols(B) |->
        CSumSeq([l \in 1..Cols(A) |-> CMul(A[i][l], B[l][j])])]]

CMatSub(A, B) ==
    [i \in 1..Rows(A) |-> [j \in 1..Cols(A) |-> CSub(A[i][j], B[i][j])]]

CMatAdd(A, B) ==
    [i \in 1..Rows(A) |-> [j \in 1..Cols(A) |-> CAdd(A[i][j], B[i][j])]]

\* np.tensordot(U, V) on complex matrices: the sum of the entrywise
\* products; neither factor is conjugated.
CTensordot(U, V) ==
    CSumSeq([i \in 1..Rows(U) |->
        CSumSeq([j \in 1..Cols(U) |-> CMul(U[i][j], V[i][j])])])

\* np.sqrt and la.norm: the square root of x >= 0 is kept as a term,
\* that of x < 0 is nan.
Sqrt(x) == IF x < 0 THEN [kind |-> "nan"] ELSE [kind |-> "sqrt", of |-> x]

(***************************************************************************)
(* Outcomes of a call.                                                     *)
(***************************************************************************)
Return(v) == [kind |-> "return", value |-> v, warnings |-> <<>>]

ReturnWarned(v, w) == [kind |-> "return", value |-> v, warnings |-> <<w>>]

Raise(e) == [kind |-> "raise", exc |-> e, warnings |-> <<>>]

(***************************************************************************)
(* SymFixedRankYY                                                          *)
(***************************************************************************)

\* inner: float(np.tensordot(U, V))
RealInner(Y, U, V) == RTensordot(U, V)

\* norm: la.norm(U, "fro")
RealNorm(Y, U) == Sqrt(RTensordot(U, U))

\* A dist that returns the squared Euclidean distance of the factors.
RealDistEuclid(U, V) == Return(RTensordot(RSub(U, V), RSub(U, V)))

\* dist
RealDist(U, V) == Raise("NotImplementedError")

\* log, inherited by the complex class
RealLog(Y, U) == Raise("NotImplementedError")

\* pairmean
RealPairmean(X, Y) == Raise("NotImplementedError")

\* A retr that drops the step.
RetrKeepsPoint(variant, Y, U) == Y

\* retr, inherited by the complex class: Y + U
Retr(variant, Y, U) ==
    IF variant = "SymFixedRankYY" THEN RAdd(Y, U) ELSE CMatAdd(Y, U)

\* exp
RealExp(variant, Y, U) == ReturnWarned(Retr(variant, Y, U), "RuntimeWarning")

(***************************************************************************)
(* SymFixedRankYYComplex                                                   *)
(***************************************************************************)

\* inner: 2 * float(np.tensordot(U, V).real)
ComplexInner(Y, U, V) == 2 * CTensordot(U, V)[1]

\* norm: np.sqrt(self.inner(Y, U, U))
ComplexNorm(Y, U) == Sqrt(ComplexInner(Y, U, U))

\* exp
ComplexExp(variant, Y, U) ==
    ReturnWarned(Retr(variant, Y, U), "RuntimeWarning")

\* pairmean
ComplexPairmean(X, Y) == Raise("NotImplementedError")

\* la.svd(M) of a 1-by-1 complex matrix (z), z # 0, is (u, |z|, vh) with
\* u * vh = z / |z|; dist uses only that product.  It is an exact Gaussian
\* integer when z lies on an axis.
OnAxis(z) == (z[1] = 0 /\ z[2] # 0) \/ (z[1] # 0 /\ z[2] = 0)

Phase(z) ==
    IF z[2] = 0 THEN (IF z[1] > 0 THEN <<1, 0>> ELSE <<-1, 0>>)
    ELSE (IF z[2] > 0 THEN <<0, 1>> ELSE <<0, -1>>)

\* S.dot(D) for S, _, D = la.svd(M), M 1-by-1.
SvdUnitary(M) == <<<<Phase(M[1][1])>>>>

\* The whole-number fraction x / 2 of float division.
Half(x) == Frac(x, 2)

\* dist
ComplexDist(U, V) ==
    LET SD == SvdUnitary(CMatMul(CConjTranspose(V), U))
        E == CMatSub(U, CMatMul(V, SD))
    IN  Return(Half(ComplexInner(None, E, E)))

(***************************************************************************)
(* Projection onto the horizontal space (SymFixedRankYY.proj).  An ambient *)
(* or tangent matrix with rational entries is [num, den]: an integer       *)
(* matrix over a common positive denominator, in lowest terms.             *)
(***************************************************************************)
RECURSIVE GcdSeq(_)
GcdSeq(s) == IF Len(s) = 0 THEN 0 ELSE Gcd(s[1], GcdSeq(SubSeq(s, 2, Len(s))))

\* num / den in lowest terms, den made positive.
QMat(num, den) ==
    LET g == Gcd(den, GcdSeq([i \in 1..Rows(num) |-> GcdSeq(num[i])]))
        s == IF den < 0 THEN -1 ELSE 1
    IN  [num |-> [i \in 1..Rows(num) |-> [j \in 1..Cols(num) |->
                    (s * num[i][j]) \div g]],
         den |-> (s * den) \div g]

QOfInt(M) == [num |-> M, den |-> 1]

Trace(A) == SumSeq([i \in 1..Rows(A) |-> A[i][i]])

\* scipy.linalg.solve_lyapunov(A, Q): the X with A X + X A^H = Q.  For A
\* symmetric with nonzero trace and Q skew-symmetric of size at most 2,
\* A X + X A = tr(A) X when k = 2 and 2 A X when k = 1, so X = Q / tr(A)
\* (k = 2) or Q / (2 A) (k = 1).
Lyap(A, Q) ==
    [num |-> Q, den |-> IF Rows(A) = 1 THEN 2 * A[1][1] ELSE Trace(A)]

\* proj(Y, H) for an integer point Y and a rational ambient matrix H.
Proj(Y, H) ==
    LET YtY == RMul(RTranspose(Y), Y)
        AS == RSub(RMul(RTranspose(Y), H.num), RMul(RTranspose(H.num), Y))
        Omega == Lyap(YtY, RScale(-1, AS))
    IN  QMat(RSub(RScale(Omega.den, H.num), RMul(Y, Omega.num)),
             Omega.den * H.den)

(***************************************************************************)
(* Points, tangent vectors and group elements of bounded size.             *)
(***************************************************************************)
IsReal(variant) == variant = "SymFixedRankYY"

\* The entries of the matrices drawn: whole numbers 0..MaxEntry, and the
\* Gaussian integers re + im*i with re, im >= 0 and re + im <= MaxEntry.
RealEntries == 0..MaxEntry

ComplexEntries ==
    {z \in RealEntries \X RealEntries : z[1] + z[2] <= MaxEntry}

Entries(variant) == IF IsReal(variant) THEN RealEntries ELSE ComplexEntries

\* All n-by-k matrices over the bounded entries.
Mats(variant, n, k) == [1..n -> [1..k -> Entries(variant)]]

\* The Gram matrix Y^T Y or Y^H Y, as a complex matrix.
AsComplex(M) == [i \in 1..Rows(M) |-> [j \in 1..Cols(M) |-> <<M[i][j], 0>>]]

Gram(variant, Y) ==
    LET Yc == IF IsReal(variant) THEN AsComplex(Y) ELSE Y
    IN  CMatMul(CConjTranspose(Yc), Yc)

\* Y has full column rank (k <= 2): its Gram determinant is not zero.
FullRank(variant, Y) ==
    LET G == Gram(variant, Y)
    IN  IF Cols(Y) = 1 THEN G[1][1] # <<0, 0>>
        ELSE CSub(CMul(G[1][1], G[2][2]), CMul(G[1][2], G[2][1])) # <<0, 0>>

Points(m) == {Y \in Mats(m.variant, m.n, m.k) : FullRank(m.variant, Y)}

\* U is horizontal at Y: Y^T U is symmetric (real), Y^H U Hermitian (complex).
Horizontal(variant, Y, U) ==
    IF IsReal(variant)
    THEN LET W == RMul(RTranspose(Y), U) IN W = RTranspose(W)
    ELSE LET W == CMatMul(CConjTranspose(Y), U) IN W = CConjTranspose(W)

Tangents(m, Y) ==
    {U \in Mats(m.variant, m.n, m.k) : Horizontal(m.variant, Y, U)}

Zero(m) ==
    [i \in 1..m.n |-> [j \in 1..m.k |->
        IF IsReal(m.variant) THEN 0 ELSE <<0, 0>>]]

Identity(variant, k) ==
    [i \in 1..k |-> [j \in 1..k |->
        IF IsReal(variant) THEN (IF i = j THEN 1 ELSE 0)
        ELSE (IF i = j THEN <<1, 0>> ELSE <<0, 0>>)]]

\* The k-by-k orthogonal (real) or unitary (complex) matrices with entries
\* in {-1, 0, 1} or {0, 1, -1, i, -i}.
UnitEntries(variant) ==
    IF IsReal(variant) THEN {-1, 0, 1}
    ELSE {<<0, 0>>, <<1, 0>>, <<-1, 0>>, <<0, 1>>, <<0, -1>>}

Group(variant, k) ==
    {Q \in [1..k -> [1..k -> UnitEntries(variant)]] :
        IF IsReal(variant)
        THEN RMul(RTranspose(Q), Q) = Identity(variant, k)
        ELSE CMatMul(CConjTranspose(Q), Q) = Identity(variant, k)}

\* M.dot(Q)
Rotate(variant, M, Q) == IF IsReal(variant) THEN RMul(M, Q) ELSE CMatMul(M, Q)

\* The value of self.inner / self.norm on an instance of the variant.
InnerOf(variant, Y, U, V) ==
    IF Resolve(variant, "inner") = "SymFixedRankYY"
    THEN RealInner(Y, U, V) ELSE ComplexInner(Y, U, V)

NormOf(variant, Y, U) ==
    IF Resolve(variant, "norm") = "SymFixedRankYY"
    THEN RealNorm(Y, U) ELSE ComplexNorm(Y, U)

(***************************************************************************)
(* The operations called on an instance.                                   *)
(***************************************************************************)
Shapes(variant) ==
    {s \in (1..MaxN) \X (1..MaxN) :
        /\ s[2] <= s[1]
        /\ (IF IsReal(variant) THEN 1 ELSE 2) * s[1] * s[2] <= MaxReals}

InitManifold ==
    /\ manifold \in {[variant |-> v, n |-> n, k |-> k] :
                        v \in Variants, n \in 1..MaxN, k \in 1..MaxN}
    /\ <<manifold.n, manifold.k>> \in Shapes(manifold.variant)
    /\ pydiv = "true"
    /\ last = NoCall
    /\ problem = NoProblem
    /\ ret = NoCall
    /\ ncalls = 0

\* The operations keep no state between calls: a behaviour is one call on
\* the instance, and the call changes nothing but its own outcome.
Idle == last = NoCall

Frame == UNCHANGED <<manifold, pydiv, problem, ret, ncalls>>

Inner ==
    /\ Idle
    /\ \E Y \in Points(manifold) :
         \E U \in Tangents(manifold, Y), V \in Tangents(manifold, Y) :
            last' = [op |-> "inner", Y |-> Y, U |-> U, V |-> V,
                     out |-> Return(InnerOf(manifold.variant, Y, U, V))]
    /\ Frame

Norm ==
    /\ Idle
    /\ \E Y \in Points(manifold) : \E U \in Tangents(manifold, Y) :
            last' = [op |-> "norm", Y |-> Y, U |-> U,
                     out |-> Return(NormOf(manifold.variant, Y, U))]
    /\ Frame

Dist ==
    /\ Idle
    /\ \E U \in Points(manifold), V \in Points(manifold) :
         IF Resolve(manifold.variant, "dist") = "SymFixedRankYY"
         THEN last' = [op |-> "dist", U |-> U, V |-> V, out |-> RealDist(U, V)]
         ELSE /\ manifold.k = 1
              /\ OnAxis(CMatMul(CConjTranspose(V), U)[1][1])
              /\ last' = [op |-> "dist", U |-> U, V |-> V,
                          out |-> ComplexDist(U, V)]
    /\ Frame

\* proj on an instance of the real class (the complex class inherits the
\* same method; its matrices are not drawn here).
ProjCall ==
    /\ Idle
    /\ IsReal(manifold.variant)
    /\ \E Y \in Points(manifold), H \in Mats(manifold.variant, manifold.n, manifold.k) :
            last' = [op |-> "proj", Y |-> Y, H |-> H,
                     out |-> Return(Proj(Y, QOfInt(H)))]
    /\ Frame

Exp ==
    /\ Idle
    /\ \E Y \in Points(manifold), U \in Mats(manifold.variant, manifold.n, manifold.k) :
            last' = [op |-> "exp", Y |-> Y, U |-> U,
                     out |-> IF Resolve(manifold.variant, "exp") = "SymFixedRankYY"
                             THEN RealExp(manifold.variant, Y, U)
                             ELSE ComplexExp(manifold.variant, Y, U)]
    /\ Frame

RetrCall ==
    /\ Idle
    /\ \E Y \in Points(manifold), U \in Mats(manifold.variant, manifold.n, manifold.k) :
            last' = [op |-> "retr", Y |-> Y, U |-> U,
                     out |-> Return(Retr(manifold.variant, Y, U))]
    /\ Frame

Log ==
    /\ Idle
    /\ \E Y \in Points(manifold), U \in Points(manifold) :
            last' = [op |-> "log", Y |-> Y, U |-> U, out |-> RealLog(Y, U)]
    /\ Frame

Pairmean ==
    /\ Idle
    /\ \E X \in Points(manifold), Y \in Points(manifold) :
            last' = [op |-> "pairmean", X |-> X, Y |-> Y,
                     out |-> IF Resolve(manifold.variant, "pairmean") = "SymFixedRankYY"
                             THEN RealPairmean(X, Y)
                             ELSE ComplexPairmean(X, Y)]
    /\ Frame

\* The metric operations: inner, norm, dist, proj.
NextMetric == Inner \/ Norm \/ Dist \/ ProjCall

SpecMetric == InitManifold /\ [][NextMetric]_vars

\* The maps between points: exp, retr, and the unsupported log, pairmean, dist.
NextMaps == Exp \/ RetrCall \/ Log \/ Pairmean \/ Dist

SpecMaps == InitManifold /\ [][NextMaps]_vars

(***************************************************************************)
(* Claims about the manifolds                                              *)
(***************************************************************************)

\* C3: on the real class dist, log and pairmean raise NotImplementedError
\* for every argument pair and return no value; pairmean on the complex
\* class does the same.
C3_Unsupported ==
    /\ (last.op \in {"dist", "log", "pairmean"} /\ IsReal(manifold.variant))
          => (last.out.kind = "raise" /\ last.out.exc = "NotImplementedError")
    /\ (last.op = "pairmean" /\ ~IsReal(manifold.variant))
          => (last.out.kind = "raise" /\ last.out.exc = "NotImplementedError")

\* dist has been called on two distinct full-rank points of the real class.
C3_Witness ==
    /\ last.op = "dist"
    /\ IsReal(manifold.variant)
    /\ manifold.k = 2
    /\ last.U # last.V
    /\ last.out.kind = "raise"

\* C4: the complex inner product is positive-definite on the horizontal
\* space: inner(Y, U, U) > 0 for every nonzero U horizontal at Y, and
\* norm(Y, U) is the square root of that positive number.
C4_PositiveDefinite ==
    /\ (last.op = "inner" /\ ~IsReal(manifold.variant)
           /\ last.U = last.V /\ last.U # Zero(manifold))
          => last.out.value > 0
    /\ (last.op = "norm" /\ ~IsReal(manifold.variant)
           /\ last.U # Zero(manifold))
          => (last.out.value.kind = "sqrt" /\ last.out.value.of > 0)

\* C5: the metric is invariant along the orbit: inner(YQ, UQ, VQ) =
\* inner(Y, U, V) and norm(YQ, UQ) = norm(Y, U) for every orthogonal
\* (real) or unitary (complex) Q.
C5_OrbitInvariant ==
    LET v == manifold.variant
    IN  /\ last.op = "inner" =>
              \A Q \in Group(v, manifold.k) :
                  InnerOf(v, Rotate(v, last.Y, Q), Rotate(v, last.U, Q),
                          Rotate(v, last.V, Q)) = last.out.value
        /\ last.op = "norm" =>
              \A Q \in Group(v, manifold.k) :
                  NormOf(v, Rotate(v, last.Y, Q), Rotate(v, last.U, Q))
                      = last.out.value

\* C6: the complex dist is non-negative, and zero when V = U Q for a
\* unitary Q.
C6_DistNonNegative ==
    (last.op = "dist" /\ ~IsReal(manifold.variant)) =>
        /\ last.out.kind = "return"
        /\ last.out.value[1] >= 0
        /\ ((\E Q \in Group(manifold.variant, manifold.k) :
                last.V = Rotate(manifold.variant, last.U, Q))
               => last.out.value[1] = 0)

\* C7: proj(Y, H) is horizontal at Y, projecting it again returns it, and
\* proj(Y, U) = U for U horizontal at Y.
C7_ProjIdempotent ==
    last.op = "proj" =>
        LET P == last.out.value
        IN  /\ Horizontal(manifold.variant, last.Y, P.num)
            /\ Proj(last.Y, P) = P
            /\ (Horizontal(manifold.variant, last.Y, last.H)
                   => P = QOfInt(last.H))

\* C8: exp raises nothing, emits exactly one warning and returns Y + U, the
\* value of retr(Y, U); with U = 0 both return Y.
C8_ExpFallsBack ==
    LET sum == [i \in 1..manifold.n |-> [j \in 1..manifold.k |->
                  IF IsReal(manifold.variant)
                  THEN last.Y[i][j] + last.U[i][j]
                  ELSE <<last.Y[i][j][1] + last.U[i][j][1],
                         last.Y[i][j][2] + last.U[i][j][2]>>]]
    IN  /\ last.op = "exp" =>
              /\ last.out.kind = "return"
              /\ last.out.warnings = <<"RuntimeWarning">>
              /\ last.out.value = sum
              /\ (last.U = Zero(manifold) => last.out.value = last.Y)
        /\ last.op = "retr" =>
              /\ last.out = Return(sum)
              /\ (last.U = Zero(manifold) => last.out.value = last.Y)

\* exp has been called on the complex class with a nonzero step.
C8_Witness ==
    /\ last.op = "exp"
    /\ ~IsReal(manifold.variant)
    /\ manifold.n = 2
    /\ last.U # Zero(manifold)
    /\ last.out.kind = "return"
    /\ last.out.value # last.Y

====
